---- MODULE Spec2Model ----
(***************************************************************************)
(* Model of app.py: a chat front end that validates and base64-encodes     *)
(* uploaded files, assembles the outbound message list, makes one blocking *)
(* call to the remote completion endpoint per turn and turns every failure *)
(* into assistant-side text of the new turn.                               *)
(*                                                                         *)
(* Text is modelled as a sequence of tokens (<<"Error: ", "Connection      *)
(* error: ", ...>>), so that "begins with" and "contains" are computed;    *)
(* the empty string is << >>.  Bytes are integers 0..255 and the base64    *)
(* text is a sequence of code points.                                      *)
(***************************************************************************)
EXTENDS Integers, Sequences, FiniteSets, TLC

VARIABLES
    api_key,    \* os.getenv("ANTHROPIC_API_KEY"): None or the credential
    chatbot,    \* value of the gr.Chatbot component: the history, a sequence of <<user, bot>>
    files,      \* value of the gr.Files component: the pending file list
    origin,     \* for every turn of chatbot, the branch of handle_chat that recorded it
    pc,         \* "idle", or "pending" while handle_chat blocks in client.messages.create
    frame,      \* the call of handle_chat in progress or just returned
    batch,      \* input of the file functions: a list of files
    vres,       \* outcome of validate_file on one file of batch
    pres        \* outcome of process_attachments on batch

vars == <<api_key, chatbot, files, origin, pc, frame, batch, vres, pres>>

chatVars == <<api_key, chatbot, files, origin, pc, frame>>
fileVars == <<batch, vres, pres>>

-----------------------------------------------------------------------------
(* Bounds of the model *)

MaxTurns == 3       \* turns the history may hold
MaxFiles == 2       \* files in one list
MaxDataLen == 3     \* bytes of a small file's content

-----------------------------------------------------------------------------
(* Python values *)

None == <<"None">>      \* Python's None; no text or MIME type of the model equals it

\* The body of an HTTP error response: whether it parses as JSON, and whether
\* the object has an "error" member and that a "message" member.
Body(is_json, has_error, has_message, message) ==
    [is_json |-> is_json, has_error |-> has_error, has_message |-> has_message,
     message |-> message]

NoBody == Body(FALSE, FALSE, FALSE, << >>)

NoExc == [cls |-> "", msg |-> << >>, body |-> NoBody]

Ok(v) == [ok |-> TRUE, val |-> v, exc |-> NoExc]

Raise(e) == [ok |-> FALSE, val |-> << >>, exc |-> e]

\* An exception: its class, the message str() gives, and for an API status
\* error the body of the HTTP response.
Exc(cls, msg) == [cls |-> cls, msg |-> msg, body |-> NoBody]

\* The direct base class of every exception class the program meets.
BaseOf(cls) ==
    CASE cls = "RateLimitError"     -> "APIStatusError"
      [] cls = "APIStatusError"     -> "APIError"
      [] cls = "APITimeoutError"    -> "APIConnectionError"
      [] cls = "APIConnectionError" -> "APIError"
      [] cls = "APIError"           -> "Exception"
      [] cls = "JSONDecodeError"    -> "ValueError"
      [] cls = "PermissionError"    -> "OSError"
      [] cls = "Exception"          -> "BaseException"
      [] cls = "BaseException"      -> "object"
      [] OTHER                      -> "Exception"

RECURSIVE IsInstance(_, _)
IsInstance(cls, base) ==
    IF cls = base THEN TRUE
    ELSE IF cls = "object" THEN FALSE
    ELSE IsInstance(BaseOf(cls), base)

\* str(e): the message the exception was built with.  gradio is not among the
\* sources; str() of a gr.Error is taken to be its message as well.
Str(e) == e.msg

IsPrefix(p, s) == Len(p) <= Len(s) /\ SubSeq(s, 1, Len(p)) = p

-----------------------------------------------------------------------------
(* Constants of app.py *)

MAX_TOKENS == 8192

MAX_FILE_SIZE_MB == 10

BytesPerMB == 1024 * 1024

ALLOWED_MIME_TYPES ==
    { <<"text/">>, <<"image/">>, <<"application/", "pdf">>,
      <<"application/", "json">>, <<"application/", "msword">> }

-----------------------------------------------------------------------------
(* Files.  A file is what the three calls on its path give: name, the      *)
(* value of os.path.getsize, whether open() succeeds, and the bytes read() *)
(* returns.  A small file carries all its bytes; of a file near the size   *)
(* limit only a sample of the content is carried.                          *)

FileNames == {"test.txt", "large_file.bin", "doc.pdf", "photo.png", "data.json", "noext"}

\* mimetypes.guess_type(name)[0]
guess_type(name) ==
    CASE name = "test.txt"       -> <<"text/", "plain">>
      [] name = "large_file.bin" -> <<"application/", "octet-stream">>
      [] name = "doc.pdf"        -> <<"application/", "pdf">>
      [] name = "photo.png"      -> <<"image/", "png">>
      [] name = "data.json"      -> <<"application/", "json">>
      [] OTHER                   -> None

ByteVals == {0, 77, 255}

RECURSIVE ByteSeqs(_)
ByteSeqs(n) ==
    IF n = 0 THEN { << >> }
    ELSE LET shorter == ByteSeqs(n - 1)
         IN  shorter \cup { Append(s, b) : s \in { t \in shorter : Len(t) = n - 1 }, b \in ByteVals }

SizeLimit == MAX_FILE_SIZE_MB * BytesPerMB

LargeSizes == { SizeLimit - 1, SizeLimit, SizeLimit + 1, 15 * BytesPerMB }

LargeSample == <<37, 80, 68, 70>>

File(name, size, data, readable) ==
    [name |-> name, size |-> size, data |-> data, readable |-> readable]

FileUniverse ==
    { File(n, Len(d), d, TRUE) : n \in FileNames, d \in ByteSeqs(MaxDataLen) }
    \cup { File(n, s, LargeSample, r) : n \in FileNames, s \in LargeSizes, r \in BOOLEAN }

\* The files the multi-file lists draw from.
CoreFiles ==
    { File("test.txt", 2, <<72, 105>>, TRUE),
      File("doc.pdf", SizeLimit, LargeSample, TRUE),
      File("test.txt", SizeLimit + 1, LargeSample, TRUE),
      File("large_file.bin", 1, <<0>>, TRUE),
      File("noext", 1, <<77>>, TRUE),
      File("photo.png", 1, <<255>>, FALSE) }

\* The files the user of the chat session uploads: one that is accepted, one
\* over the size limit, one without a MIME type and one that cannot be opened.
ChatFiles ==
    { File("test.txt", 2, <<72, 105>>, TRUE),
      File("test.txt", SizeLimit + 1, LargeSample, TRUE),
      File("noext", 1, <<77>>, TRUE),
      File("photo.png", 1, <<255>>, FALSE) }

RECURSIVE Lists(_, _)
Lists(S, n) ==
    IF n = 0 THEN { << >> }
    ELSE LET shorter == Lists(S, n - 1)
         IN  shorter \cup { Append(l, x) : l \in { t \in shorter : Len(t) = n - 1 }, x \in S }

-----------------------------------------------------------------------------
(* validate_file *)

\* Variant: the size in whole megabytes (an integer division) against the limit.
ExceedsLimit_floor(size) == (size \div BytesPerMB) > MAX_FILE_SIZE_MB

\* file_size > MAX_FILE_SIZE_MB, where file_size = getsize / (1024 * 1024) as a
\* float: the division by a power of two is exact, so the test is on the bytes.
ExceedsLimit(size) == size > MAX_FILE_SIZE_MB * BytesPerMB

\* any(mime_type.startswith(allowed) for allowed in ALLOWED_MIME_TYPES)
AnyAllowed(mime_type) == \E allowed \in ALLOWED_MIME_TYPES : IsPrefix(allowed, mime_type)

validate_file(f) ==
    IF ExceedsLimit(f.size)
    THEN Raise(Exc("ValueError", <<"File size exceeds ", "10", "MB limit">>))
    ELSE LET mime_type == guess_type(f.name)
         IN  IF mime_type = None
             THEN Raise(Exc("AttributeError",
                            <<"'NoneType' object has no attribute 'startswith'">>))
             ELSE IF ~AnyAllowed(mime_type)
             THEN Raise(Exc("ValueError", <<"Unsupported file type: ">> \o mime_type))
             ELSE Ok(None)

-----------------------------------------------------------------------------
(* base64.b64encode(file_data).decode("utf-8") *)

\* Variant: the URL-safe alphabet, "-" and "_" for the last two digits.
B64Digit_urlsafe(v) ==
    IF v < 26 THEN 65 + v
    ELSE IF v < 52 THEN 97 + (v - 26)
    ELSE IF v < 62 THEN 48 + (v - 52)
    ELSE IF v = 62 THEN 45
    ELSE 95

\* The ASCII code of the base64 digit of a 6-bit value.
B64Digit(v) ==
    IF v < 26 THEN 65 + v
    ELSE IF v < 52 THEN 97 + (v - 26)
    ELSE IF v < 62 THEN 48 + (v - 52)
    ELSE IF v = 62 THEN 43
    ELSE 47

B64Pad == 61

RECURSIVE b64encode(_)
b64encode(data) ==
    IF Len(data) = 0 THEN << >>
    ELSE IF Len(data) = 1 THEN
        LET n == data[1] * 65536
        IN  << B64Digit(n \div 262144), B64Digit((n \div 4096) % 64), B64Pad, B64Pad >>
    ELSE IF Len(data) = 2 THEN
        LET n == data[1] * 65536 + data[2] * 256
        IN  << B64Digit(n \div 262144), B64Digit((n \div 4096) % 64),
               B64Digit((n \div 64) % 64), B64Pad >>
    ELSE
        LET n == data[1] * 65536 + data[2] * 256 + data[3]
        IN  << B64Digit(n \div 262144), B64Digit((n \div 4096) % 64),
               B64Digit((n \div 64) % 64), B64Digit(n % 64) >>
            \o b64encode(SubSeq(data, 4, Len(data)))

\* bytes.decode("utf-8") of ASCII bytes: one code point per byte.
decode_utf8(bytes) == [i \in 1..Len(bytes) |-> bytes[i]]

-----------------------------------------------------------------------------
(* process_attachments *)

\* The state of the loop: the attachments built so far and, for the record,
\* the indices of the files validate_file, open and b64encode were called on.
NoProgress == [attachments |-> << >>, validated |-> << >>, opened |-> << >>, encoded |-> << >>]

FileError(e) == Exc("Error", <<"File error: ">> \o Str(e))

OpenError(f) == Exc("PermissionError", <<"[Errno 13] Permission denied: ", f.name>>)

Attachment(f) ==
    LET mime_type == guess_type(f.name)
    IN  [type |-> "base64",
         media_type |-> IF mime_type = None THEN <<"application/", "octet-stream">> ELSE mime_type,
         data |-> decode_utf8(b64encode(f.data))]

\* Variant: a file that fails is logged and skipped, the loop goes on.
RECURSIVE pa_loop_skip(_, _, _)
pa_loop_skip(fs, i, st) ==
    IF i > Len(fs) THEN [ok |-> TRUE, val |-> st.attachments, exc |-> NoExc, trace |-> st]
    ELSE
        LET f == fs[i]
            v == validate_file(f)
            st1 == [st EXCEPT !.validated = Append(@, i)]
            st2 == [st1 EXCEPT !.opened = Append(@, i)]
            st3 == [st2 EXCEPT !.encoded = Append(@, i),
                               !.attachments = Append(@, Attachment(f))]
        IN  IF ~v.ok THEN pa_loop_skip(fs, i + 1, st1)
            ELSE IF ~f.readable THEN pa_loop_skip(fs, i + 1, st2)
            ELSE pa_loop_skip(fs, i + 1, st3)

RECURSIVE pa_loop(_, _, _)
pa_loop(fs, i, st) ==
    IF i > Len(fs) THEN [ok |-> TRUE, val |-> st.attachments, exc |-> NoExc, trace |-> st]
    ELSE
        LET f == fs[i]
            v == validate_file(f)
            st1 == [st EXCEPT !.validated = Append(@, i)]
            st2 == [st1 EXCEPT !.opened = Append(@, i)]
            st3 == [st2 EXCEPT !.encoded = Append(@, i),
                               !.attachments = Append(@, Attachment(f))]
        IN  IF ~v.ok
            THEN [ok |-> FALSE, val |-> << >>, exc |-> FileError(v.exc), trace |-> st1]
            ELSE IF ~f.readable
            THEN [ok |-> FALSE, val |-> << >>, exc |-> FileError(OpenError(f)), trace |-> st2]
            ELSE pa_loop(fs, i + 1, st3)

process_attachments(fs) == pa_loop(fs, 1, NoProgress)

-----------------------------------------------------------------------------
(* The remote completion endpoint: what client.messages.create does *)

Messages == { <<"Hello">> }

ReplyTexts == { << >>, <<"Hi there">> }

\* Bodies of an error response: not JSON (a gateway's HTML page), a JSON object
\* without an "error" member, and one carrying error.message.
NotJSON == Body(FALSE, FALSE, FALSE, << >>)

Overloaded == Body(TRUE, TRUE, TRUE, <<"Overloaded">>)

ErrorBodies == { NotJSON, Body(TRUE, FALSE, FALSE, << >>), Overloaded }

StatusError(cls, body) == [cls |-> cls, msg |-> <<"Error code: 4xx/5xx">>, body |-> body]

RemoteOutcomes ==
    { [kind |-> "response", content |-> c, exc |-> NoExc] :
          c \in { << >> } \cup { <<t>> : t \in ReplyTexts } }
    \cup { [kind |-> "raise", content |-> << >>, exc |-> e] :
          e \in { Exc("APIConnectionError", <<"Connection error.">>),
                  Exc("APITimeoutError", <<"Request timed out.">>),
                  StatusError("RateLimitError", Overloaded) }
                \cup { StatusError("APIStatusError", b) : b \in ErrorBodies } }

NoRemote == [kind |-> "none", content |-> << >>, exc |-> NoExc]

-----------------------------------------------------------------------------
(* chat_with_claude *)

GrError(msg) == Exc("Error", msg)

\* e.response.json().get('error', {}).get('message', 'Unknown error')
remote_message(e) ==
    IF ~e.body.is_json
    THEN Raise(Exc("JSONDecodeError", <<"Expecting value: line 1 column 1 (char 0)">>))
    ELSE IF e.body.has_error /\ e.body.has_message
    THEN Ok(e.body.message)
    ELSE Ok(<<"Unknown error">>)

\* The except clauses of chat_with_claude, tried in the order written.
except_chain(e) ==
    IF IsInstance(e.cls, "APIConnectionError")
    THEN Raise(GrError(<<"Connection error", ": Please check your internet connection">>))
    ELSE IF IsInstance(e.cls, "RateLimitError")
    THEN Raise(GrError(<<"Rate limit exceeded", ": Please wait before sending new messages">>))
    ELSE IF IsInstance(e.cls, "APIStatusError")
    THEN LET m == remote_message(e)
         IN  IF m.ok THEN Raise(GrError(<<"API error", ": ">> \o m.val)) ELSE Raise(m.exc)
    ELSE IF IsInstance(e.cls, "Exception")
    THEN Raise(GrError(<<"Unexpected error", ": ">> \o Str(e)))
    ELSE Raise(e)

\* Variant: api_key is None, which lets the empty string through.
KeyMissing_is_none(key) == key = None

\* not api_key
KeyMissing(key) == key = None \/ key = << >>

UserMessage(message, attachments) ==
    [role |-> "user", content |-> message, attachments |-> attachments, has_attachments |-> TRUE]

HistoryMessage(role, content) ==
    [role |-> role, content |-> content, attachments |-> << >>, has_attachments |-> FALSE]

\* messages.extend([user, assistant]) for every pair of history, in order
RECURSIVE HistoryMessages(_)
HistoryMessages(history) ==
    IF history = << >> THEN << >>
    ELSE << HistoryMessage("user", Head(history)[1]),
            HistoryMessage("assistant", Head(history)[2]) >>
         \o HistoryMessages(Tail(history))

build_messages(message, history, attachments) ==
    << UserMessage(message, attachments) >> \o HistoryMessages(history)

\* The keyword arguments of client.messages.create
Request(messages) ==
    [model |-> "claude-3-5-sonnet-20241022", max_tokens |-> MAX_TOKENS,
     temperature |-> 0, messages |-> messages, timeout |-> 30]

NoRequest == << >>

\* chat_with_claude up to the remote call: the credential check, the
\* attachments and the message list.  sent tells whether the call is made;
\* otherwise exit is the exception chat_with_claude leaves with.
chat_request(message, history, fs, key) ==
    IF KeyMissing(key)
    THEN [sent |-> FALSE, exit |-> Raise(GrError(<<"Configuration error", ": API key missing">>)),
          request |-> NoRequest, trace |-> NoProgress]
    ELSE LET pa == process_attachments(fs)
         IN  IF ~pa.ok
             THEN [sent |-> FALSE, exit |-> except_chain(pa.exc),
                   request |-> NoRequest, trace |-> pa.trace]
             ELSE [sent |-> TRUE, exit |-> Ok(<< >>),
                   request |-> Request(build_messages(message, history, pa.val)),
                   trace |-> pa.trace]

\* chat_with_claude from the remote call on: response.content[0].text, or the
\* exception the except clauses turn the failure into.
chat_response(remote) ==
    IF remote.kind = "raise" THEN except_chain(remote.exc)
    ELSE IF Len(remote.content) = 0
    THEN except_chain(Exc("IndexError", <<"list index out of range">>))
    ELSE Ok(remote.content[1])

-----------------------------------------------------------------------------
(* handle_chat *)

\* Variant: except gr.Error, so that any other exception leaves handle_chat.
handle_chat_narrow(message, history, cw) ==
    IF cw.ok
    THEN [returned |-> TRUE, updated_history |-> history \o << <<message, cw.val>> >>,
          files |-> << >>, arg |-> history, branch |-> "reply", exc |-> NoExc]
    ELSE IF IsInstance(cw.exc.cls, "Error")
    THEN [returned |-> TRUE,
          updated_history |-> history \o << <<message, <<"Error: ">> \o Str(cw.exc)>> >>,
          files |-> << >>, arg |-> history, branch |-> "error", exc |-> NoExc]
    ELSE [returned |-> FALSE, updated_history |-> << >>, files |-> << >>,
          arg |-> history, branch |-> "raised", exc |-> cw.exc]

\* Variant: history.append(...) and return history, which changes the caller's list.
handle_chat_in_place(message, history, cw) ==
    IF cw.ok
    THEN [returned |-> TRUE, updated_history |-> history \o << <<message, cw.val>> >>,
          files |-> << >>, arg |-> history \o << <<message, cw.val>> >>,
          branch |-> "reply", exc |-> NoExc]
    ELSE IF IsInstance(cw.exc.cls, "Exception")
    THEN [returned |-> TRUE,
          updated_history |-> history \o << <<message, <<"Error: ">> \o Str(cw.exc)>> >>,
          files |-> << >>, arg |-> history \o << <<message, <<"Error: ">> \o Str(cw.exc)>> >>,
          branch |-> "error", exc |-> NoExc]
    ELSE [returned |-> FALSE, updated_history |-> << >>, files |-> << >>,
          arg |-> history, branch |-> "raised", exc |-> cw.exc]

\* Variant: error_msg = str(e), without the "Error: " in front.
handle_chat_bare(message, history, cw) ==
    IF cw.ok
    THEN [returned |-> TRUE, updated_history |-> history \o << <<message, cw.val>> >>,
          files |-> << >>, arg |-> history, branch |-> "reply", exc |-> NoExc]
    ELSE IF IsInstance(cw.exc.cls, "Exception")
    THEN [returned |-> TRUE,
          updated_history |-> history \o << <<message, Str(cw.exc)>> >>,
          files |-> << >>, arg |-> history, branch |-> "error", exc |-> NoExc]
    ELSE [returned |-> FALSE, updated_history |-> << >>, files |-> << >>,
          arg |-> history, branch |-> "raised", exc |-> cw.exc]

\* cw is the outcome of chat_with_claude(message, history, files).  arg is the
\* list object the caller passed as history, as it is after the call.
handle_chat(message, history, cw) ==
    IF cw.ok
    THEN [returned |-> TRUE, updated_history |-> history \o << <<message, cw.val>> >>,
          files |-> << >>, arg |-> history, branch |-> "reply", exc |-> NoExc]
    ELSE IF IsInstance(cw.exc.cls, "Exception")
    THEN [returned |-> TRUE,
          updated_history |-> history \o << <<message, <<"Error: ">> \o Str(cw.exc)>> >>,
          files |-> << >>, arg |-> history, branch |-> "error", exc |-> NoExc]
    ELSE [returned |-> FALSE, updated_history |-> << >>, files |-> << >>,
          arg |-> history, branch |-> "raised", exc |-> cw.exc]

-----------------------------------------------------------------------------
(* The chat session: the event handlers of the interface *)

NoResult ==
    [returned |-> FALSE, updated_history |-> << >>, files |-> << >>,
     arg |-> << >>, branch |-> "none", exc |-> NoExc]

NoFrame ==
    [status |-> "none", message |-> << >>, history |-> << >>, origin |-> << >>,
     fs |-> << >>, trace |-> NoProgress, request |-> NoRequest, calls |-> 0,
     completions |-> 0, remote |-> NoRemote, result |-> NoResult]

\* The credential in the environment: unset, set to the empty string, or set.
ApiKeys == { None, << >>, <<"sk-ant-test">> }

NotValidated == [ran |-> FALSE, index |-> 0, res |-> Ok(None)]

NotProcessed == [ran |-> FALSE, res |-> [ok |-> TRUE, val |-> << >>, exc |-> NoExc, trace |-> NoProgress]]

Init ==
    /\ api_key \in ApiKeys
    /\ chatbot = << >>
    /\ files = << >>
    /\ origin = << >>
    /\ pc = "idle"
    /\ frame = NoFrame
    /\ batch = << >>
    /\ vres = NotValidated
    /\ pres = NotProcessed

\* The user adds a file to the upload control.
AddFile(f) ==
    /\ pc = "idle"
    /\ Len(chatbot) < MaxTurns
    /\ Len(files) < MaxFiles
    /\ files' = Append(files, f)
    /\ frame' = NoFrame
    /\ UNCHANGED <<api_key, chatbot, origin, pc, fileVars>>

\* handle_chat returns: its outputs go to the chatbot and the files control.
Complete(fr, cw) ==
    LET r == handle_chat(fr.message, fr.history, cw)
    IN  /\ frame' = [fr EXCEPT !.status = IF r.returned THEN "returned" ELSE "raised",
                               !.completions = @ + 1,
                               !.result = r]
        /\ pc' = "idle"
        /\ IF r.returned
           THEN /\ chatbot' = r.updated_history
                /\ files' = r.files
                /\ origin' = Append(fr.origin, r.branch)
           ELSE UNCHANGED <<chatbot, files, origin>>

\* submit_btn.click / msg.submit: handle_chat(msg, chatbot, files), up to the
\* point where it blocks in the remote call, or to its return when it makes none.
Submit(message) ==
    /\ pc = "idle"
    /\ Len(chatbot) < MaxTurns
    /\ LET rq == chat_request(message, chatbot, files, api_key)
           fr == [NoFrame EXCEPT !.message = message, !.history = chatbot,
                                 !.origin = origin, !.fs = files,
                                 !.trace = rq.trace, !.request = rq.request,
                                 !.calls = IF rq.sent THEN 1 ELSE 0]
       IN  IF rq.sent
           THEN /\ frame' = [fr EXCEPT !.status = "pending"]
                /\ pc' = "pending"
                /\ UNCHANGED <<chatbot, files, origin>>
           ELSE Complete(fr, rq.exit)
    /\ UNCHANGED <<api_key, fileVars>>

\* The remote call ends, with a response or an exception, and handle_chat
\* runs to its return.
Respond(remote) ==
    /\ pc = "pending"
    /\ Complete([frame EXCEPT !.remote = remote], chat_response(remote))
    /\ UNCHANGED <<api_key, fileVars>>

\* clear_btn.click (queue=False: it does not wait for a running handler)
Clear ==
    /\ chatbot' = << >>
    /\ files' = << >>
    /\ origin' = << >>
    /\ frame' = IF pc = "pending" THEN frame ELSE NoFrame
    /\ UNCHANGED <<api_key, pc, fileVars>>

Next ==
    \/ \E f \in ChatFiles : AddFile(f)
    \/ \E message \in Messages : Submit(message)
    \/ \E remote \in RemoteOutcomes : Respond(remote)
    \/ Clear

Spec == Init /\ [][Next]_vars

-----------------------------------------------------------------------------
(* The file functions on their own: validate_file and process_attachments  *)
(* applied to every list of up to MaxFiles files of CoreFiles and to every *)
(* single file of FileUniverse.                                            *)

BatchInputs == Lists(CoreFiles, MaxFiles) \cup { <<f>> : f \in FileUniverse }

InitFiles ==
    /\ api_key = None
    /\ chatbot = << >>
    /\ files = << >>
    /\ origin = << >>
    /\ pc = "idle"
    /\ frame = NoFrame
    /\ batch \in BatchInputs
    /\ vres = NotValidated
    /\ pres = NotProcessed

\* validate_file(batch[i].name)
Validate(i) ==
    /\ ~vres.ran
    /\ vres' = [ran |-> TRUE, index |-> i, res |-> validate_file(batch[i])]
    /\ UNCHANGED <<batch, pres, chatVars>>

\* process_attachments(batch)
Process ==
    /\ ~pres.ran
    /\ pres' = [ran |-> TRUE, res |-> process_attachments(batch)]
    /\ UNCHANGED <<batch, vres, chatVars>>

NextFiles ==
    \/ \E i \in 1..Len(batch) : Validate(i)
    \/ Process

SpecFiles == InitFiles /\ [][NextFiles]_vars

-----------------------------------------------------------------------------
(* Notions the properties are stated in *)

\* base64.b64decode on the standard alphabet; -1 for a code outside it.
B64Value(c) ==
    IF c >= 65 /\ c <= 90 THEN c - 65
    ELSE IF c >= 97 /\ c <= 122 THEN c - 71
    ELSE IF c >= 48 /\ c <= 57 THEN c + 4
    ELSE IF c = 43 THEN 62
    ELSE IF c = 47 THEN 63
    ELSE -1

Invalid == <<-1>>

RECURSIVE b64decode(_)
b64decode(text) ==
    IF Len(text) = 0 THEN << >>
    ELSE IF Len(text) < 4 THEN Invalid
    ELSE
        LET v1 == B64Value(text[1])
            v2 == B64Value(text[2])
            v3 == B64Value(text[3])
            v4 == B64Value(text[4])
            rest == SubSeq(text, 5, Len(text))
        IN  IF v1 < 0 \/ v2 < 0 THEN Invalid
            ELSE IF text[3] = 61 /\ text[4] = 61
            THEN IF rest = << >> THEN << (v1 * 262144 + v2 * 4096) \div 65536 >> ELSE Invalid
            ELSE IF v3 < 0 THEN Invalid
            ELSE IF text[4] = 61
            THEN IF rest = << >>
                 THEN LET n == v1 * 262144 + v2 * 4096 + v3 * 64
                      IN  << n \div 65536, (n \div 256) % 256 >>
                 ELSE Invalid
            ELSE IF v4 < 0 THEN Invalid
            ELSE LET n == v1 * 262144 + v2 * 4096 + v3 * 64 + v4
                     tail == b64decode(rest)
                 IN  IF tail = Invalid THEN Invalid
                     ELSE << n \div 65536, (n \div 256) % 256, n % 256 >> \o tail

\* The environment holds no credential: the variable is unset or empty.
NoCredential == api_key = None \/ api_key = << >>

\* The file is under the size threshold and its inferred MIME type is allow-listed.
Acceptable(f) ==
    /\ f.size < MAX_FILE_SIZE_MB * BytesPerMB
    /\ guess_type(f.name) # None
    /\ \E allowed \in ALLOWED_MIME_TYPES : IsPrefix(allowed, guess_type(f.name))

\* The indices of the files of fs that fail validation or cannot be read.
FailingIndices(fs) == { i \in 1..Len(fs) : ~validate_file(fs[i]).ok \/ ~fs[i].readable }

\* The text holds the token.
Contains(s, tok) == \E i \in 1..Len(s) : s[i] = tok

Min(S) == CHOOSE m \in S : \A n \in S : m <= n

UpTo(n) == [i \in 1..n |-> i]

Finished(fr) == fr.status = "returned" \/ fr.status = "raised"

\* The turn of the frame met a failure inside chat_with_claude.
TurnFailed(fr) ==
    \/ NoCredential
    \/ FailingIndices(fr.fs) # {}
    \/ fr.remote.kind = "raise"
    \/ fr.remote.kind = "response" /\ fr.remote.content = << >>

NewTurn == chatbot[Len(chatbot)]

NewText == NewTurn[2]

-----------------------------------------------------------------------------
(* Properties *)

\* C1: handle_chat never lets an error escape.  Whatever the message, the
\* history, the file list and the failure inside chat_with_claude, it returns
\* normally: its history ends with the turn <<message, text>>, the text of a
\* failed turn is the error behind "Error: ", and the interface is idle again,
\* ready for the next submission.
C1_NoErrorEscapes ==
    /\ frame.status # "raised"
    /\ frame.status = "returned" =>
          /\ frame.result.returned
          /\ pc = "idle"
          /\ chatbot # << >>
          /\ NewTurn[1] = frame.message
          /\ TurnFailed(frame) => IsPrefix(<<"Error: ">>, NewText) /\ Len(NewText) > 1

\* C1 witness: a submission is handled, and fails with an exception that is no
\* gr.Error, right after a submission that failed.
C1_Witness ==
    /\ frame.status = "returned"
    /\ frame.remote.kind = "raise"
    /\ ~frame.remote.exc.body.is_json
    /\ frame.remote.exc.cls = "APIStatusError"
    /\ frame.history # << >>
    /\ frame.origin[Len(frame.origin)] = "error"

\* C2 (state part): a submission yields the history it was given plus exactly
\* one turn <<message, text>> at the end, earlier turns unchanged and in order,
\* and an empty pending file list; the list it was given is not mutated.
C2_ReturnAppends ==
    frame.status = "returned" =>
        /\ Len(chatbot) = Len(frame.history) + 1
        /\ SubSeq(chatbot, 1, Len(frame.history)) = frame.history
        /\ NewTurn[1] = frame.message
        /\ Len(NewTurn) = 2
        /\ chatbot = frame.result.updated_history
        /\ files = << >>
        /\ frame.result.arg = frame.history

\* C2 (step part): the history a submission is given is the chatbot's value,
\* and a step shortens the history or the pending file list only by clearing both.
C2_OnlyClearResets ==
    /\ (frame'.status = "pending" /\ frame.status # "pending") => frame'.history = chatbot
    /\ (pc = "idle" /\ frame'.status = "returned" /\ frame' # frame) => frame'.history = chatbot
    /\ (Len(chatbot') < Len(chatbot) \/ (Len(files') < Len(files) /\ frame'.status # "returned"))
          => chatbot' = << >> /\ files' = << >>

\* C2: history is append-only within a session: every submission, successful
\* or failing, returns the history it was given plus one new turn and an empty
\* pending file list, without mutating what it was given; only the clear action
\* resets the history and the pending file list.
C2_AppendOnly == [](C2_ReturnAppends) /\ [][C2_OnlyClearResets]_vars

\* C2 witness: a submission with a non-empty history and a pending file has returned.
C2_Witness ==
    /\ frame.status = "returned"
    /\ Len(frame.history) = 2
    /\ frame.history[1] # frame.history[2]
    /\ frame.fs # << >>
    /\ files = << >>

\* The outbound list the claim describes: the pairs of the history, oldest
\* first, then the new input carrying the attachments.
ChronologicalMessages(message, history, attachments) ==
    HistoryMessages(history) \o << UserMessage(message, attachments) >>

\* C3 (as claimed): the outbound message list is the user/assistant pairs
\* derived from the history, oldest turn first, followed by exactly one trailing
\* user message, the new input, the only message that carries attachments.
C3_NewInputTrails ==
    frame.status = "pending" =>
        LET messages == frame.request.messages
        IN  /\ messages = ChronologicalMessages(frame.message, frame.history,
                                                frame.trace.attachments)
            /\ messages[Len(messages)].role = "user"
            /\ \A i \in 1..Len(messages) : messages[i].has_attachments <=> i = Len(messages)

\* C4 (as claimed): validate_file fails with the validation error for every
\* file whose size is at or above the threshold, whatever its MIME type.
C4_AtOrAboveRejected ==
    (vres.ran /\ batch[vres.index].size >= MAX_FILE_SIZE_MB * BytesPerMB) =>
        ~vres.res.ok /\ vres.res.exc.cls = "ValueError"

\* C4 (amended): validate_file fails with the validation error, "File size
\* exceeds 10MB limit", for every file whose size is above the threshold of
\* 10*1024*1024 bytes, whatever its MIME type.
C4_AboveRejected ==
    (vres.ran /\ batch[vres.index].size > MAX_FILE_SIZE_MB * BytesPerMB) =>
        /\ ~vres.res.ok
        /\ vres.res.exc.cls = "ValueError"
        /\ vres.res.exc.msg = <<"File size exceeds ", "10", "MB limit">>

\* C4 witness: validate_file has run on a file one byte above the threshold
\* whose MIME type is allow-listed.
C4_Witness ==
    /\ vres.ran
    /\ batch[vres.index].size = MAX_FILE_SIZE_MB * BytesPerMB + 1
    /\ batch[vres.index].name = "test.txt"
    /\ ~vres.res.ok

\* C5 (as claimed): validate_file fails with the validation error, the kind
\* an oversized file gets, for every file under the threshold whose inferred
\* MIME type is unknown or starts with no member of the allow-set.
C5_BadTypeRejected ==
    (vres.ran /\ batch[vres.index].size < MAX_FILE_SIZE_MB * BytesPerMB
              /\ ~Acceptable(batch[vres.index])) =>
        ~vres.res.ok /\ vres.res.exc.cls = "ValueError"

\* C6 (as claimed): each failure class has its own text in the new turn:
\* a missing credential begins "Error: Configuration error", a connectivity
\* failure contains "Connection error", a rate limit contains "Rate limit
\* exceeded" and not "API error", an API status error contains "API error" and
\* the remote message, anything else contains "Unexpected error"; every error
\* text begins with "Error: ".
C6_ClassifiedText ==
    (frame.status = "returned" /\ TurnFailed(frame)) =>
        LET cls == frame.remote.exc.cls
            body == frame.remote.exc.body
        IN  /\ IsPrefix(<<"Error: ">>, NewText)
            /\ IF NoCredential
               THEN IsPrefix(<<"Error: ", "Configuration error">>, NewText)
               ELSE IF FailingIndices(frame.fs) # {}
               THEN Contains(NewText, "Unexpected error")
               ELSE IF frame.remote.kind = "response"
               THEN Contains(NewText, "Unexpected error")
               ELSE IF IsInstance(cls, "APIConnectionError")
               THEN Contains(NewText, "Connection error")
               ELSE IF IsInstance(cls, "RateLimitError")
               THEN Contains(NewText, "Rate limit exceeded") /\ ~Contains(NewText, "API error")
               ELSE IF IsInstance(cls, "APIStatusError")
               THEN /\ Contains(NewText, "API error")
                    /\ (body.is_json /\ body.has_error /\ body.has_message)
                          => IsPrefix(body.message, SubSeq(NewText, 4, Len(NewText)))
               ELSE Contains(NewText, "Unexpected error")

C8_TextNonEmpty == \A i \in 1..Len(chatbot) : chatbot[i][2] # << >>

\* C8 (amended): the assistant text of every turn that records an error is
\* non-empty, it begins with "Error: "; a turn that records a reply holds the
\* text of the response's first content block, whatever it is, the empty text
\* included; and every failed turn is recorded as an error.
C8_ErrorTextNonEmpty ==
    /\ Len(origin) = Len(chatbot)
    /\ \A i \in 1..Len(chatbot) :
          /\ origin[i] \in {"reply", "error"}
          /\ origin[i] = "error" => chatbot[i][2] # << >> /\ IsPrefix(<<"Error: ">>, chatbot[i][2])
          /\ origin[i] = "reply" => chatbot[i][2] \in ReplyTexts
    /\ frame.status = "returned" =>
          /\ TurnFailed(frame) <=> origin[Len(origin)] = "error"
          /\ ~TurnFailed(frame) => NewText = frame.remote.content[1]

\* C8 witness: the history holds an error turn and a reply with empty text.
C8_Witness ==
    /\ Len(chatbot) = 2
    /\ origin[1] = "error"
    /\ origin[2] = "reply"
    /\ chatbot[2][2] = << >>
    /\ frame.status = "returned"

\* C9: files are processed in input order and the first file that fails
\* validation or reading ends the batch: the files before it were validated,
\* read and encoded in order, it was validated (and opened if valid), no file
\* after it was touched, no attachment list reaches a request and the turn
\* makes no network call.
C9_FirstFailureAborts ==
    (frame.status # "none" /\ ~NoCredential) =>
        LET bad == FailingIndices(frame.fs)
            t == frame.trace
        IN  IF bad = {}
            THEN /\ t.validated = UpTo(Len(frame.fs))
                 /\ t.opened = UpTo(Len(frame.fs))
                 /\ t.encoded = UpTo(Len(frame.fs))
            ELSE LET k == Min(bad)
                 IN  /\ t.validated = UpTo(k)
                     /\ t.opened = IF validate_file(frame.fs[k]).ok THEN UpTo(k) ELSE UpTo(k - 1)
                     /\ t.encoded = UpTo(k - 1)
                     /\ frame.request = NoRequest
                     /\ frame.calls = 0
                     /\ frame.status = "returned"
                     /\ frame.remote.kind = "none"
                     /\ Contains(NewText, "File error: ")

\* C9 witness: the first of two files failed, the second would have passed.
C9_Witness ==
    /\ frame.status = "returned"
    /\ ~NoCredential
    /\ Len(frame.fs) = 2
    /\ FailingIndices(frame.fs) = {1}
    /\ ~frame.fs[1].readable

====
